---------------------------- MODULE Spec2Model ----------------------------
(***************************************************************************)
(* Model of two components of the narwhal repository:                      *)
(*   - consensus/src/dolphin/virtual_state.rs : VirtualState (virtual DAG, *)
(*     admission try_add, cleanup);                                        *)
(*   - rust/worker/src/net.rs : the worker ingress server (banner          *)
(*     handshake, worker-control handler, transaction handler).            *)
(* The two components share no state.  SpecVS, SpecVSCalls and             *)
(* SpecVSAfterCleanup explore the virtual state; SpecNet and SpecNetLive   *)
(* one ingress connection together with its backend channels.              *)
(***************************************************************************)
EXTENDS Integers, Sequences, FiniteSets, TLC

VARIABLES
    \* ---- VirtualState (virtual_state.rs:10-20) ----
    dag,        \* Dag: round -> (authority -> <<digest, certificate>>)
    steady_authorities_sets,     \* HashMap: wave -> set of authorities
    fallback_authorities_sets,   \* HashMap: wave -> set of authorities
    op,         \* the last operation called on the VirtualState
    ret,        \* the value returned by the last try_add (meaningful when op = "try_add")
    tick,       \* flips on every call, so that a call that changes nothing is still a step
    committed,  \* the largest argument cleanup was called with so far, -1 if never called
    leader,     \* what the last call returned if it was steady_leader or fallback_leader
    offered,    \* the certificates a caller set out to feed to try_add
    pending,    \* those of them try_add has not admitted yet
    \* ---- one ingress connection (net.rs) ----
    pc,         \* position of the connection task
    channel_type, \* the banner's channel type once deserialized, "none" before
    received,   \* frames taken by the serving handler so far, in arrival order
    sending,    \* the command the task is blocked sending to a backend channel, or <<>>
    writing,    \* the frame the task is blocked writing to the client, or <<>>
    responses_ordered, \* FuturesOrdered: indices of the pending reply futures, FIFO
    slot,       \* reply slot of each command: "pending", "dropped" or <<"filled", r>>
    chan,       \* the three backend channels: queue of items and whether the receiver is alive
    held,       \* commands the backend has taken from a channel and still holds
    fwd,        \* history: everything ever placed on each backend channel, in order
    out         \* frames written to the client, in order: <<index of the request, bytes>>

vsVars  == <<dag, steady_authorities_sets, fallback_authorities_sets, op, ret, tick, committed,
             leader, offered, pending>>
netVars == <<pc, channel_type, received, sending, writing, responses_ordered, slot, chan, held,
             fwd, out>>
vars    == <<dag, steady_authorities_sets, fallback_authorities_sets, op, ret, tick, committed,
             leader, offered, pending,
             pc, channel_type, received, sending, writing, responses_ordered, slot, chan, held,
             fwd, out>>

(***************************************************************************)
(*                     VirtualState: data model                            *)
(***************************************************************************)

\* Largest virtual round of the certificates offered to try_add; cleanup is
\* called with arguments up to MaxRound + 1.
MaxRound == 2

\* The committee (config::Committee.authorities.keys()).
Auth == {"A", "B", "C", "D"}

Rounds == 0..MaxRound

\* The arguments given to cleanup.
CommitRounds == 0..(MaxRound + 1)

\* Digests are modelled as collision-free: the digest of a certificate names
\* its author, its round and which of the author's proposals it is.
Dig(a, r, v) == <<a, r, v>>

\* A certificate that lists every authority's first proposal of round r-1.
Full(a, r) ==
    [origin |-> a, virtual_round |-> r,
     virtual_parents |-> IF r = 0 THEN {} ELSE {Dig(b, r - 1, 1) : b \in Auth},
     digest |-> Dig(a, r, 1)]

\* A conflicting proposal that omits its own author's previous certificate.
NoSelf(a, r) ==
    [origin |-> a, virtual_round |-> r,
     virtual_parents |-> IF r = 0 THEN {} ELSE {Dig(b, r - 1, 1) : b \in Auth \ {a}},
     digest |-> Dig(a, r, 2)]

\* A proposal that lists only its own author's previous certificate.
SelfOnly(a, r) ==
    [origin |-> a, virtual_round |-> r,
     virtual_parents |-> IF r = 0 THEN {} ELSE {Dig(a, r - 1, 1)},
     digest |-> Dig(a, r, 3)]

\* A proposal without virtual parents.
Orphan(a, r) ==
    [origin |-> a, virtual_round |-> r, virtual_parents |-> {}, digest |-> Dig(a, r, 4)]

\* An author that is not in the committee and has no genesis certificate.
Outsider == "E"

\* The certificates offered to try_add (try_add takes any certificate: it does
\* not look at the committee).
Certs ==
    {Full(a, r) : a \in Auth, r \in Rounds}
    \cup {NoSelf("A", r) : r \in Rounds}
    \cup {SelfOnly("B", r) : r \in 1..MaxRound}
    \cup {Orphan("C", 1)}
    \cup {Full(Outsider, 1)}

\* Certificate::genesis: one round-0 certificate per authority.
Genesis == {Full(a, 0) : a \in Auth}

EmptyMap == <<>>

\* HashMap::insert on a map modelled as a function with a finite domain.
MapInsert(m, k, v) == [x \in DOMAIN m \cup {k} |-> IF x = k THEN v ELSE m[x]]

\* HashMap::retain with a predicate on the key: the map restricted to `keep`.
MapRetain(m, keep) == [x \in DOMAIN m \cap keep |-> m[x]]

\* The digests stored at round r (empty when the round has no entry).
DigestsAt(d, r) == IF r \in DOMAIN d THEN {d[r][a][1] : a \in DOMAIN d[r]} ELSE {}

(***************************************************************************)
(*                     VirtualState: operations                            *)
(***************************************************************************)

\* VirtualState::new
NewDag(genesis) == [r \in {0} |-> [a \in {x.origin : x \in genesis} |->
                      LET x == CHOOSE y \in genesis : y.origin = a IN <<x.digest, x>>]]
NewSteady == [w \in {1} |-> Auth]

\* try_add, lines 52-55: the digests of the certificates of the previous round.
previous_round_certificates(d, round) ==
    IF (round - 1) \in DOMAIN d
    THEN {d[round - 1][a][1] : a \in DOMAIN d[round - 1]}
    ELSE {}

\* A try_add that forgets to check that the author extends its own chain.
TryAddOk_NoOriginCheck(d, c) ==
    LET round == c.virtual_round IN
    IF round = 0 THEN FALSE
    ELSE \A x \in c.virtual_parents : x \in previous_round_certificates(d, round)

\* A try_add that admits round-0 certificates whose (empty) parents are present.
TryAddOk_NoRoundCheck(d, c) ==
    LET round == c.virtual_round IN
    IF round = 0 THEN c.virtual_parents = {}
    ELSE
        /\ \A x \in c.virtual_parents : x \in previous_round_certificates(d, round)
        /\ IF (round - 1) \in DOMAIN d THEN c.origin \in DOMAIN d[round - 1] ELSE FALSE

\* A try_add that accepts an author with an entry at any round.
TryAddOk_OriginAtAnyRound(d, c) ==
    LET round == c.virtual_round IN
    IF round = 0 THEN FALSE
    ELSE
        /\ \A x \in c.virtual_parents : x \in previous_round_certificates(d, round)
        /\ \E r \in DOMAIN d : c.origin \in DOMAIN d[r]

\* A try_add that does not look at the virtual parents.
TryAddOk_NoParentCheck(d, c) ==
    LET round == c.virtual_round IN
    IF round = 0 THEN FALSE
    ELSE IF (round - 1) \in DOMAIN d THEN c.origin \in DOMAIN d[round - 1] ELSE FALSE

\* A try_add whose author check defaults to true when the previous round is missing.
TryAddOk_MissingRoundOk(d, c) ==
    LET round == c.virtual_round IN
    IF round = 0 THEN FALSE
    ELSE
        /\ \A x \in c.virtual_parents : x \in previous_round_certificates(d, round)
        /\ IF (round - 1) \in DOMAIN d THEN c.origin \in DOMAIN d[round - 1] ELSE TRUE

\* try_add, lines 43-64: the value of `ok` (false on the early return of line 47).
TryAddOk(d, c) ==
    LET round == c.virtual_round IN
    IF round = 0 THEN FALSE
    ELSE
        /\ \A x \in c.virtual_parents : x \in previous_round_certificates(d, round)
        /\ IF (round - 1) \in DOMAIN d THEN c.origin \in DOMAIN d[round - 1] ELSE FALSE

\* An insertion that keeps the certificate already stored in the slot.
DagInsert_KeepFirst(d, c) ==
    LET round == c.virtual_round
        m == IF round \in DOMAIN d THEN d[round] ELSE EmptyMap
    IN  IF round \in DOMAIN d /\ c.origin \in DOMAIN d[round]
        THEN d
        ELSE MapInsert(d, round, MapInsert(m, c.origin, <<c.digest, c>>))

\* An insertion that replaces the whole entry of the round: dag.insert(round, m)
\* with m holding the new certificate alone.
DagInsert_ReplaceRound(d, c) ==
    MapInsert(d, c.virtual_round, MapInsert(EmptyMap, c.origin, <<c.digest, c>>))

\* try_add, lines 68-71: dag.entry(round).or_insert_with(HashMap::new).insert(..).
DagInsert(d, c) ==
    LET round == c.virtual_round
        m == IF round \in DOMAIN d THEN d[round] ELSE EmptyMap
    IN  MapInsert(d, round, MapInsert(m, c.origin, <<c.digest, c>>))

\* A try_add that creates the (empty) entry of the round before it checks.
TryAddDag_EntryFirst(d, c) ==
    IF TryAddOk(d, c) THEN DagInsert(d, c)
    ELSE IF c.virtual_round \in DOMAIN d THEN d
    ELSE MapInsert(d, c.virtual_round, EmptyMap)

\* try_add, lines 66-72: the dag after the call.
TryAddDag(d, c) == IF TryAddOk(d, c) THEN DagInsert(d, c) ELSE d

\* cleanup, line 79.
LastCommittedWave(last_committed_round) == (last_committed_round + 1) \div 2

\* A cleanup that also keeps the last committed round.
CleanupDag_KeepCommitted(d, last_committed_round) ==
    MapRetain(d, {r \in DOMAIN d : r >= last_committed_round})

\* cleanup, line 80.
CleanupDag(d, last_committed_round) ==
    MapRetain(d, {r \in DOMAIN d : r > last_committed_round})

\* A cleanup that compares the waves with the round instead of the wave.
CleanupSets_ByRound(s, last_committed_round) ==
    MapRetain(s, {w \in DOMAIN s : w > last_committed_round})

\* cleanup, lines 81-84 (the same retain on both authority sets).
CleanupSets(s, last_committed_round) ==
    MapRetain(s, {w \in DOMAIN s : w > LastCommittedWave(last_committed_round)})

Max(a, b) == IF a >= b THEN a ELSE b

\* The value of `leader` after a call that is not a leader election.
NoLeaderCall == <<"-">>

\* A call of try_add(certificate).
TryAdd(certificate) ==
    /\ op' = "try_add"
    /\ tick' = 1 - tick
    /\ ret' = TryAddOk(dag, certificate)
    /\ dag' = TryAddDag(dag, certificate)
    /\ leader' = NoLeaderCall
    /\ UNCHANGED <<steady_authorities_sets, fallback_authorities_sets, committed>>
    /\ UNCHANGED <<offered, pending>>
    /\ UNCHANGED netVars

\* A call of cleanup(&last_committed_round).
Cleanup(last_committed_round) ==
    /\ op' = "cleanup"
    /\ ret' = FALSE
    /\ tick' = 1 - tick
    /\ committed' = Max(committed, last_committed_round)
    /\ dag' = CleanupDag(dag, last_committed_round)
    /\ steady_authorities_sets' = CleanupSets(steady_authorities_sets, last_committed_round)
    /\ fallback_authorities_sets' = CleanupSets(fallback_authorities_sets, last_committed_round)
    /\ leader' = NoLeaderCall
    /\ UNCHANGED <<offered, pending>>
    /\ UNCHANGED netVars

\* A call of cleanup(&last_committed_round) by a caller that repeats an earlier
\* argument or regresses below it; the call is recorded as "cleanup_again".
CleanupAgain(last_committed_round) ==
    /\ last_committed_round <= committed
    /\ op' = "cleanup_again"
    /\ ret' = FALSE
    /\ tick' = 1 - tick
    /\ dag' = CleanupDag(dag, last_committed_round)
    /\ steady_authorities_sets' = CleanupSets(steady_authorities_sets, last_committed_round)
    /\ fallback_authorities_sets' = CleanupSets(fallback_authorities_sets, last_committed_round)
    /\ leader' = NoLeaderCall
    /\ UNCHANGED <<committed, offered, pending>>
    /\ UNCHANGED netVars

\* The order of PublicKey (Ord): the position of an authority's identifier.
KeyRank(a) == CHOOSE i \in 0..3 : <<"A", "B", "C", "D">>[i + 1] = a

\* committee.size(): the number of authorities.
CommitteeSize == Cardinality(Auth)

\* Lines 96-97 and 116-117: the committee's keys collected and sorted, as a
\* 0-indexed vector.
SortedKeys ==
    CHOOSE keys \in [0..(CommitteeSize - 1) -> Auth] :
        \A i, j \in 0..(CommitteeSize - 1) : i < j => KeyRank(keys[i]) < KeyRank(keys[j])

\* Line 101 and line 121: self.dag.get(&round).map(|x| x.get(&leader)).flatten().
DagGet(d, round, a) ==
    IF round \in DOMAIN d /\ a \in DOMAIN d[round]
    THEN <<"Some", d[round][a]>>
    ELSE <<"None">>

\* steady_leader as compiled for the tests: the seed pinned to 0 (line 91).
steady_leader_TestSeed(d, round) ==
    LET seed == 0
        elected == SortedKeys[seed % CommitteeSize]
    IN  DagGet(d, round, elected)

\* steady_leader, lines 90-98, not(test): the key elected for the round.
steady_leader_key(round) ==
    LET seed == (round + 1) \div 2
    IN  SortedKeys[seed % CommitteeSize]

\* steady_leader, lines 89-102, not(test).
steady_leader(d, round) == DagGet(d, round, steady_leader_key(round))

\* fallback_leader as compiled for the tests: the coin pinned to 0 (line 111).
fallback_leader_TestCoin(d, round) ==
    LET coin == 0
        elected == SortedKeys[coin % CommitteeSize]
    IN  DagGet(d, round, elected)

\* fallback_leader, lines 110-118, not(test): the key elected for the round.
fallback_leader_key(round) ==
    LET coin == (round + 1) \div 4
    IN  SortedKeys[coin % CommitteeSize]

\* fallback_leader, lines 106-122, not(test).
fallback_leader(d, round) == DagGet(d, round, fallback_leader_key(round))

\* The deepest round of the DAGs the leader elections are called on: deep
\* enough for the steady seed to go once round the committee.
DeepRound == MaxRound + 6

\* The certificates that build those DAGs.
DeepCerts == {Full(a, r) : a \in Auth, r \in 1..DeepRound}

\* The rounds the leader elections are called with.
LeaderRounds == 0..(DeepRound + 1)

\* A call of steady_leader(round) (&self: the state is only read).
SteadyLeader(round) ==
    /\ op' = "steady_leader"
    /\ ret' = FALSE
    /\ tick' = 1 - tick
    /\ leader' = steady_leader(dag, round)
    /\ UNCHANGED <<dag, steady_authorities_sets, fallback_authorities_sets, committed>>
    /\ UNCHANGED <<offered, pending>>
    /\ UNCHANGED netVars

\* A call of fallback_leader(round) (&self: the state is only read).
FallbackLeader(round) ==
    /\ op' = "fallback_leader"
    /\ ret' = FALSE
    /\ tick' = 1 - tick
    /\ leader' = fallback_leader(dag, round)
    /\ UNCHANGED <<dag, steady_authorities_sets, fallback_authorities_sets, committed>>
    /\ UNCHANGED <<offered, pending>>
    /\ UNCHANGED netVars

\* The waves of the rounds up to MaxRound + 1.
Waves == 1..LastCommittedWave(MaxRound + 1)

\* The authorities the commit rule records in the authority sets.
ModeAuth == {"A"}

\* steady_authorities_sets and fallback_authorities_sets are public fields the
\* consensus commit rule writes: entry(wave).or_insert_with(HashSet::new).insert(a).
SetInsert(s, w, a) == MapInsert(s, w, (IF w \in DOMAIN s THEN s[w] ELSE {}) \cup {a})

CommitRuleSteady(w, a) ==
    /\ steady_authorities_sets' = SetInsert(steady_authorities_sets, w, a)
    /\ steady_authorities_sets' # steady_authorities_sets
    /\ op' = "commit_rule"
    /\ ret' = FALSE
    /\ tick' = 1 - tick
    /\ UNCHANGED <<dag, fallback_authorities_sets, committed, leader, offered, pending>>
    /\ UNCHANGED netVars

CommitRuleFallback(w, a) ==
    /\ fallback_authorities_sets' = SetInsert(fallback_authorities_sets, w, a)
    /\ fallback_authorities_sets' # fallback_authorities_sets
    /\ op' = "commit_rule"
    /\ ret' = FALSE
    /\ tick' = 1 - tick
    /\ UNCHANGED <<dag, steady_authorities_sets, committed, leader, offered, pending>>
    /\ UNCHANGED netVars

\* A caller that feeds a set of certificates: it offers a certificate it has
\* not got admitted yet, and offers it again later if it was refused.
Feed(certificate) ==
    /\ certificate \in pending
    /\ op' = "try_add"
    /\ tick' = 1 - tick
    /\ ret' = TryAddOk(dag, certificate)
    /\ dag' = TryAddDag(dag, certificate)
    /\ pending' = IF TryAddOk(dag, certificate) THEN pending \ {certificate} ELSE pending
    /\ leader' = NoLeaderCall
    /\ UNCHANGED <<steady_authorities_sets, fallback_authorities_sets, committed, offered>>
    /\ UNCHANGED netVars

\* The state VirtualState::new(committee, genesis) returns.
NewVirtualState ==
    /\ dag = NewDag(Genesis)
    /\ steady_authorities_sets = NewSteady
    /\ fallback_authorities_sets = EmptyMap
    /\ op = "new"
    /\ ret = FALSE
    /\ tick = 0
    /\ committed = -1
    /\ leader = NoLeaderCall

InitVS ==
    /\ NewVirtualState
    /\ offered = {}
    /\ pending = {}

NextVS ==
    \/ \E certificate \in Certs : TryAdd(certificate)
    \/ \E last_committed_round \in CommitRounds : Cleanup(last_committed_round)
    \/ \E w \in Waves, a \in ModeAuth : CommitRuleSteady(w, a)
    \/ \E w \in Waves, a \in ModeAuth : CommitRuleFallback(w, a)


(***************************************************************************)
(*                     Worker ingress: data model                          *)
(***************************************************************************)

\* Largest number of messages or payloads a client sends on one connection;
\* the stream can end, fail or carry an unparsable frame after any of them.
MaxMsgs == 2

\* Capacity of each backend channel (tokio::sync::mpsc::channel(capacity)).
ChanCap == 1

\* WorkerChannelType and the tags of WorkerMessage (dag_core).
WorkerChannelType == {"Worker", "Transaction"}
WorkerMessage == {"Query", "Synchronize", "Batch"}

\* The response messages a backend may put in a reply slot.
Responses == {"r1", "r2"}

\* Raw transaction payloads.
Payloads == {"p1", "p2"}

\* socket.peer_addr()
PeerAddr == "peer"

\* Bytes::from("..."): literal bytes.
Bytes(lit) == <<"bytes", lit>>

\* bincode::serialize: a tagged encoding, never equal to a literal.
Serialize(v) == <<"bincode", v>>

\* bincode::deserialize into the type whose values are T.
Deserialize(T, data) ==
    IF data[1] = "bincode" /\ data[2] \in T THEN <<"Ok", data[2]>> ELSE <<"Err">>

Garbage == Bytes("garbage")

\* What transport.next().await can yield: None, Some(Err(_)), Some(Ok(data)).
StreamEnd == <<"None">>
StreamErr == <<"Err">>
Frame(data) == <<"Ok", data>>

BannerInputs == {StreamEnd, StreamErr, Frame(Garbage)}
                \cup {Frame(Serialize(t)) : t \in WorkerChannelType}
WorkerInputs == {StreamEnd, StreamErr, Frame(Garbage)}
                \cup {Frame(Serialize(m)) : m \in WorkerMessage}
TxInputs     == {StreamEnd, StreamErr} \cup {Frame(Bytes(p)) : p \in Payloads}

\* Result of transport.send(..).await .
WriteResults == {"Ok", "Err"}

Channels == {"worker", "sync", "tx"}

Pending == <<"pending">>
Dropped == <<"dropped">>
Filled(r) == <<"filled", r>>

\* The banner acknowledgement is recorded in `out` with request index 0.
BannerIdx == 0

(***************************************************************************)
(*                     Worker ingress: operations                          *)
(***************************************************************************)

\* A dispatch table that routes Synchronize to the worker channel.
Dispatch_SyncToWorker(msg) ==
    IF msg = "Query"
    THEN [must_wait |-> TRUE, on_none |-> Bytes("NOTFOUND"), output_channel |-> "worker"]
    ELSE [must_wait |-> FALSE, on_none |-> Bytes("OK"), output_channel |-> "worker"]

\* handle_worker_channel, lines 117-125: (must_wait, on_none, output_channel).
Dispatch(msg) ==
    IF msg = "Query"
    THEN [must_wait |-> TRUE, on_none |-> Bytes("NOTFOUND"), output_channel |-> "worker"]
    ELSE IF msg = "Synchronize"
    THEN [must_wait |-> FALSE, on_none |-> Bytes("OK"), output_channel |-> "sync"]
    ELSE [must_wait |-> FALSE, on_none |-> Bytes("OK"), output_channel |-> "worker"]

\* resp.get().await of a resolved slot: None or Some(response_message).
SlotGet(sl) == IF sl = Dropped THEN <<"None">> ELSE <<"Some", sl[2]>>

\* A reply future that ignores the reply slot.
FutureOutput_NeverWaits(f, sl) == f.on_none

\* handle_worker_channel, lines 134-148: the value the reply future resolves to.
FutureOutput(f, sl) ==
    IF f.must_wait
    THEN IF SlotGet(sl)[1] = "None" THEN f.on_none ELSE Serialize(SlotGet(sl)[2])
    ELSE f.on_none

\* Whether the reply future f can complete: it awaits the slot only if must_wait.
FutureReady(f, sl) == (~f.must_wait) \/ sl # Pending

\* A completion queue that yields whichever future is ready first
\* (FuturesUnordered): the position of the first ready future, 0 if none.
NextReady_Unordered(fifo, sl) ==
    IF \E k \in 1..Len(fifo) : FutureReady(fifo[k], sl[fifo[k].idx])
    THEN CHOOSE k \in 1..Len(fifo) :
            /\ FutureReady(fifo[k], sl[fifo[k].idx])
            /\ \A j \in 1..(k - 1) : ~FutureReady(fifo[j], sl[fifo[j].idx])
    ELSE 0

\* FuturesOrdered::select_next_some, line 155: only the head of the FIFO can be
\* yielded, and only once it has completed; 0 if nothing can be yielded.
NextReady(fifo, sl) ==
    IF Len(fifo) > 0 /\ FutureReady(fifo[1], sl[fifo[1].idx]) THEN 1 ELSE 0

\* Sequence s without its k-th element.
RemoveAt(s, k) == [j \in 1..(Len(s) - 1) |-> IF j < k THEN s[j] ELSE s[j + 1]]

\* A handler that queues a reply only for the messages it waits for.
PushResponse_OnlyAwaited(fifo, f) == IF f.must_wait THEN Append(fifo, f) ELSE fifo

\* handle_worker_channel, line 134: responses_ordered.push(..).
PushResponse(fifo, f) == Append(fifo, f)

\* The connection task returns: its locals (the reply FIFO, a command it was
\* sending, a frame it was writing) are dropped.
Close ==
    /\ pc' = "closed"
    /\ responses_ordered' = <<>>
    /\ sending' = <<>>
    /\ writing' = <<>>

\* A handshake that acknowledges the first frame before it parses it.
ReadBanner_AckBeforeParse(input) ==
    /\ pc = "accepted"
    /\ IF input[1] # "Ok"
       THEN Close /\ UNCHANGED <<out, channel_type>>
       ELSE LET parsed == Deserialize(WorkerChannelType, input[2]) IN
            /\ out' = Append(out, <<BannerIdx, Bytes("OK")>>)
            /\ IF parsed[1] = "Err"
               THEN Close /\ UNCHANGED channel_type
               ELSE /\ channel_type' = parsed[2]
                    /\ pc' = "classified"
                    /\ writing' = << <<BannerIdx, Bytes("OK")>> >>
                    /\ UNCHANGED <<responses_ordered, sending>>
    /\ UNCHANGED <<received, slot, chan, held, fwd>>
    /\ UNCHANGED vsVars

\* worker_server_start, lines 42-52: transport.next().await yields the first
\* frame, the banner is deserialized, and the task starts writing "OK".
ReadBanner(input) ==
    /\ pc = "accepted"
    /\ IF input[1] # "Ok"
       THEN Close /\ UNCHANGED channel_type
       ELSE LET parsed == Deserialize(WorkerChannelType, input[2]) IN
            IF parsed[1] = "Err"
            THEN Close /\ UNCHANGED channel_type
            ELSE /\ channel_type' = parsed[2]
                 /\ pc' = "classified"
                 /\ writing' = << <<BannerIdx, Bytes("OK")>> >>
                 /\ UNCHANGED <<responses_ordered, sending>>
    /\ UNCHANGED <<received, slot, chan, held, fwd, out>>
    /\ UNCHANGED vsVars

\* worker_server_start, lines 53-67: transport.send(ok).await completes; on
\* success the handler the banner selects starts.
BannerAck(write) ==
    /\ pc = "classified"
    /\ IF write = "Err"
       THEN Close /\ UNCHANGED out
       ELSE /\ out' = Append(out, writing[1])
            /\ writing' = <<>>
            /\ pc' = IF channel_type = "Worker" THEN "worker" ELSE "transaction"
            /\ UNCHANGED <<responses_ordered, sending>>
    /\ UNCHANGED <<received, slot, chan, held, fwd>>
    /\ UNCHANGED <<channel_type, vsVars>>

\* A handler that awaits the reply of each message before it reads the next.
WorkerRead_AwaitsReplyFirst(input) ==
    /\ pc = "worker"
    /\ sending = <<>>
    /\ writing = <<>>
    /\ responses_ordered = <<>>
    /\ IF input[1] # "Ok"
       THEN Close /\ UNCHANGED <<received, slot>>
       ELSE LET msg == Deserialize(WorkerMessage, input[2]) IN
            IF msg[1] = "Err"
            THEN Close /\ UNCHANGED <<received, slot>>
            ELSE LET d == Dispatch(msg[2])
                     idx == Len(received) + 1
                 IN  /\ Len(received) < MaxMsgs
                     /\ received' = Append(received, msg[2])
                     /\ slot' = Append(slot, Pending)
                     /\ sending' = << [idx |-> idx, msg |-> msg[2],
                                       must_wait |-> d.must_wait, on_none |-> d.on_none,
                                       output_channel |-> d.output_channel] >>
                     /\ UNCHANGED <<pc, responses_ordered, writing>>
    /\ UNCHANGED <<chan, held, fwd, out>>
    /\ UNCHANGED <<channel_type, vsVars>>

\* handle_worker_channel, lines 96-127: the inbound branch of select!, up to the
\* point where the command is handed to output_channel.send(cmd).  The loop is
\* at select! only when the task is in neither await of a branch body.  The
\* number of messages a client sends is bounded by MaxMsgs; the end of the
\* stream, a stream error and an unparsable frame can come at any time.
WorkerRead(input) ==
    /\ pc = "worker"
    /\ sending = <<>>
    /\ writing = <<>>
    /\ IF input[1] # "Ok"
       THEN Close /\ UNCHANGED <<received, slot>>
       ELSE LET msg == Deserialize(WorkerMessage, input[2]) IN
            IF msg[1] = "Err"
            THEN Close /\ UNCHANGED <<received, slot>>
            ELSE LET d == Dispatch(msg[2])
                     idx == Len(received) + 1
                 IN  /\ Len(received) < MaxMsgs
                     /\ received' = Append(received, msg[2])
                     /\ slot' = Append(slot, Pending)
                     /\ sending' = << [idx |-> idx, msg |-> msg[2],
                                       must_wait |-> d.must_wait, on_none |-> d.on_none,
                                       output_channel |-> d.output_channel] >>
                     /\ UNCHANGED <<pc, responses_ordered, writing>>
    /\ UNCHANGED <<chan, held, fwd, out>>
    /\ UNCHANGED <<channel_type, vsVars>>

\* A handler that ignores the error of a closed backend channel and queues the
\* reply all the same.
WorkerSend_ReplyThoughNotSent ==
    /\ pc = "worker"
    /\ sending # <<>>
    /\ LET s == sending[1]
           ch == s.output_channel
       IN  /\ IF ~chan[ch].alive
              THEN UNCHANGED <<chan, fwd>>
              ELSE /\ Len(chan[ch].q) < ChanCap
                   /\ chan' = [chan EXCEPT ![ch].q = Append(@, [idx |-> s.idx, msg |-> s.msg])]
                   /\ fwd' = [fwd EXCEPT ![ch] = Append(@, [idx |-> s.idx, msg |-> s.msg])]
           /\ responses_ordered' =
                  PushResponse(responses_ordered,
                               [idx |-> s.idx, must_wait |-> s.must_wait,
                                on_none |-> s.on_none])
           /\ sending' = <<>>
           /\ UNCHANGED <<pc, writing>>
    /\ UNCHANGED <<received, slot, held, out>>
    /\ UNCHANGED <<channel_type, vsVars>>

\* handle_worker_channel, lines 129-148: output_channel.send(cmd).await completes
\* (with an error if the receiver is gone), then the reply future is queued.
WorkerSend ==
    /\ pc = "worker"
    /\ sending # <<>>
    /\ LET s == sending[1]
           ch == s.output_channel
       IN  IF ~chan[ch].alive
           THEN Close /\ UNCHANGED <<chan, fwd>>
           ELSE /\ Len(chan[ch].q) < ChanCap
                /\ chan' = [chan EXCEPT ![ch].q = Append(@, [idx |-> s.idx, msg |-> s.msg])]
                /\ fwd' = [fwd EXCEPT ![ch] = Append(@, [idx |-> s.idx, msg |-> s.msg])]
                /\ responses_ordered' =
                       PushResponse(responses_ordered,
                                    [idx |-> s.idx, must_wait |-> s.must_wait,
                                     on_none |-> s.on_none])
                /\ sending' = <<>>
                /\ UNCHANGED <<pc, writing>>
    /\ UNCHANGED <<received, slot, held, out>>
    /\ UNCHANGED <<channel_type, vsVars>>

\* handle_worker_channel, lines 155-156: the reply branch of select! is taken:
\* select_next_some yields the completed reply at the head of the FIFO and the
\* task starts writing it.
WorkerNextReply ==
    /\ pc = "worker"
    /\ sending = <<>>
    /\ writing = <<>>
    /\ NextReady(responses_ordered, slot) # 0
    /\ LET k == NextReady(responses_ordered, slot)
           f == responses_ordered[k]
           response == FutureOutput(f, slot[f.idx])
       IN  /\ writing' = << <<f.idx, response>> >>
           /\ responses_ordered' = RemoveAt(responses_ordered, k)
    /\ UNCHANGED <<pc, sending, received, slot, chan, held, fwd, out>>
    /\ UNCHANGED <<channel_type, vsVars>>

\* A reply branch that logs a failed write and keeps serving.
WorkerEmit_IgnoreWriteErr(write) ==
    /\ pc = "worker"
    /\ writing # <<>>
    /\ out' = IF write = "Err" THEN out ELSE Append(out, writing[1])
    /\ writing' = <<>>
    /\ UNCHANGED <<pc, sending, responses_ordered>>
    /\ UNCHANGED <<received, slot, chan, held, fwd>>
    /\ UNCHANGED <<channel_type, vsVars>>

\* handle_worker_channel, lines 156-159: transport.send(response).await
\* completes.
WorkerEmit(write) ==
    /\ pc = "worker"
    /\ writing # <<>>
    /\ IF write = "Err"
       THEN Close /\ UNCHANGED out
       ELSE /\ out' = Append(out, writing[1])
            /\ writing' = <<>>
            /\ UNCHANGED <<pc, sending, responses_ordered>>
    /\ UNCHANGED <<received, slot, chan, held, fwd>>
    /\ UNCHANGED <<channel_type, vsVars>>

\* handle_transaction_channel, lines 174-178 and 190-193: take the next frame.
\* The number of payloads a client sends is bounded by MaxMsgs; the end of the
\* stream and a stream error can come at any time.
TxRead(input) ==
    /\ pc = "transaction"
    /\ sending = <<>>
    /\ writing = <<>>
    /\ IF input[1] # "Ok"
       THEN Close /\ UNCHANGED received
       ELSE /\ Len(received) < MaxMsgs
            /\ received' = Append(received, input[2])
            /\ sending' = << [idx |-> Len(received) + 1, output |-> <<PeerAddr, input[2]>>] >>
            /\ UNCHANGED <<pc, responses_ordered, writing>>
    /\ UNCHANGED <<slot, chan, held, fwd, out>>
    /\ UNCHANGED <<channel_type, vsVars>>

\* A transaction handler that acknowledges a payload without forwarding it.
TxSend_AckWithoutForward ==
    /\ pc = "transaction"
    /\ sending # <<>>
    /\ writing' = << <<sending[1].idx, Bytes("OK")>> >>
    /\ sending' = <<>>
    /\ UNCHANGED <<pc, responses_ordered, chan, fwd, received, slot, held, out>>
    /\ UNCHANGED <<channel_type, vsVars>>

\* handle_transaction_channel, lines 179-185: transaction_out.send(output).await
\* completes (with an error if the receiver is gone), then the task starts
\* writing "OK".
TxSend ==
    /\ pc = "transaction"
    /\ sending # <<>>
    /\ LET s == sending[1] IN
       IF ~chan["tx"].alive
       THEN Close /\ UNCHANGED <<chan, fwd>>
       ELSE /\ Len(chan["tx"].q) < ChanCap
            /\ chan' = [chan EXCEPT !["tx"].q = Append(@, s.output)]
            /\ fwd' = [fwd EXCEPT !["tx"] = Append(@, s.output)]
            /\ writing' = << <<s.idx, Bytes("OK")>> >>
            /\ sending' = <<>>
            /\ UNCHANGED <<pc, responses_ordered>>
    /\ UNCHANGED <<received, slot, held, out>>
    /\ UNCHANGED <<channel_type, vsVars>>

\* handle_transaction_channel, lines 185-188: transport.send(ok_response).await
\* completes.
TxAck(write) ==
    /\ pc = "transaction"
    /\ writing # <<>>
    /\ IF write = "Err"
       THEN Close /\ UNCHANGED out
       ELSE /\ out' = Append(out, writing[1])
            /\ writing' = <<>>
            /\ UNCHANGED <<pc, sending, responses_ordered>>
    /\ UNCHANGED <<received, slot, chan, held, fwd>>
    /\ UNCHANGED <<channel_type, vsVars>>

\* The consumer of a backend channel takes the next item (Receiver::recv).
BackendRecv(ch) ==
    /\ chan[ch].alive
    /\ chan[ch].q # <<>>
    /\ chan' = [chan EXCEPT ![ch].q = Tail(@)]
    /\ held' = IF ch = "tx" THEN held ELSE held \cup {Head(chan[ch].q).idx}
    /\ UNCHANGED <<pc, channel_type, received, sending, writing, responses_ordered, slot, fwd,
                   out>>
    /\ UNCHANGED vsVars

\* The backend fills the reply slot of a command it holds with response r.
BackendFill(i, r) ==
    /\ i \in held
    /\ slot' = [slot EXCEPT ![i] = IF @ = Pending THEN Filled(r) ELSE @]
    /\ held' = held \ {i}
    /\ UNCHANGED <<pc, channel_type, received, sending, writing, responses_ordered, chan, fwd,
                   out>>
    /\ UNCHANGED vsVars

\* The backend drops a command it holds without filling its reply slot.
BackendDrop(i) ==
    /\ i \in held
    /\ slot' = [slot EXCEPT ![i] = IF @ = Pending THEN Dropped ELSE @]
    /\ held' = held \ {i}
    /\ UNCHANGED <<pc, channel_type, received, sending, writing, responses_ordered, chan, fwd,
                   out>>
    /\ UNCHANGED vsVars

\* The consumer of a backend channel goes away (the Receiver is dropped): the
\* commands still queued are dropped with it, and so are their reply slots.
BackendClose(ch) ==
    /\ chan[ch].alive
    /\ chan' = [chan EXCEPT ![ch] = [q |-> <<>>, alive |-> FALSE]]
    /\ slot' = IF ch = "tx" THEN slot
               ELSE [i \in 1..Len(slot) |->
                       IF (\E k \in 1..Len(chan[ch].q) : chan[ch].q[k].idx = i)
                          /\ slot[i] = Pending
                       THEN Dropped ELSE slot[i]]
    /\ UNCHANGED <<pc, channel_type, received, sending, writing, responses_ordered, held, fwd,
                   out>>
    /\ UNCHANGED vsVars

InitNet ==
    /\ pc = "accepted"
    /\ channel_type = "none"
    /\ received = <<>>
    /\ sending = <<>>
    /\ writing = <<>>
    /\ responses_ordered = <<>>
    /\ slot = <<>>
    /\ chan = [ch \in Channels |-> [q |-> <<>>, alive |-> TRUE]]
    /\ held = {}
    /\ fwd = [ch \in Channels |-> <<>>]
    /\ out = <<>>

NextNet ==
    \/ \E input \in BannerInputs : ReadBanner(input)
    \/ \E write \in WriteResults : BannerAck(write)
    \/ \E input \in WorkerInputs : WorkerRead(input)
    \/ WorkerSend
    \/ WorkerNextReply
    \/ \E write \in WriteResults : WorkerEmit(write)
    \/ \E input \in TxInputs : TxRead(input)
    \/ TxSend
    \/ \E write \in WriteResults : TxAck(write)
    \/ \E ch \in Channels : BackendRecv(ch)
    \/ \E i \in 1..MaxMsgs, r \in Responses : BackendFill(i, r)
    \/ \E i \in 1..MaxMsgs : BackendDrop(i)
    \/ \E ch \in Channels : BackendClose(ch)

(***************************************************************************)
(*                          Specifications                                 *)
(***************************************************************************)

Init == InitVS /\ InitNet

\* The consensus task calling the VirtualState and writing the authority sets.
SpecVS == Init /\ [][NextVS]_vars

\* Only the operations of virtual_state.rs: any sequence of try_add and cleanup.
NextVSCalls ==
    \/ \E certificate \in Certs : TryAdd(certificate)
    \/ \E last_committed_round \in CommitRounds : Cleanup(last_committed_round)

SpecVSCalls == Init /\ [][NextVSCalls]_vars

\* The commit rule writes the authority sets until cleanup is first called;
\* from then on only try_add and cleanup are called.
NextVSAfterCleanup ==
    \/ \E certificate \in Certs : TryAdd(certificate)
    \/ \E last_committed_round \in CommitRounds : Cleanup(last_committed_round)
    \/ \E w \in Waves, a \in ModeAuth : committed = -1 /\ CommitRuleSteady(w, a)
    \/ \E w \in Waves, a \in ModeAuth : committed = -1 /\ CommitRuleFallback(w, a)

SpecVSAfterCleanup == Init /\ [][NextVSAfterCleanup]_vars

\* The same, with a caller that may also repeat or regress the argument of
\* cleanup; cleanup itself is called with increasing arguments.
NextVSCleanupAgain ==
    \/ \E certificate \in Certs : TryAdd(certificate)
    \/ \E last_committed_round \in CommitRounds :
          last_committed_round > committed /\ Cleanup(last_committed_round)
    \/ \E last_committed_round \in CommitRounds : CleanupAgain(last_committed_round)
    \/ \E w \in Waves, a \in ModeAuth : committed = -1 /\ CommitRuleSteady(w, a)
    \/ \E w \in Waves, a \in ModeAuth : committed = -1 /\ CommitRuleFallback(w, a)

SpecVSCleanupAgain == Init /\ [][NextVSCleanupAgain]_vars

\* try_add and cleanup calls interleaved with leader elections.
NextVSLeader ==
    \/ \E certificate \in DeepCerts : TryAdd(certificate)
    \/ \E last_committed_round \in CommitRounds : Cleanup(last_committed_round)
    \/ \E round \in LeaderRounds : SteadyLeader(round)
    \/ \E round \in LeaderRounds : FallbackLeader(round)

SpecVSLeader == Init /\ [][NextVSLeader]_vars

\* Largest number of certificates a caller sets out to feed.
MaxFeed == 3

\* The sets of certificates a caller may set out to feed.
FeedSets == {X \in SUBSET Certs : Cardinality(X) <= MaxFeed}

InitFeed ==
    /\ NewVirtualState
    /\ offered \in FeedSets
    /\ pending = offered
    /\ InitNet

NextVSFeed == \E certificate \in Certs : Feed(certificate)

\* A caller feeding a set of certificates in any order, retrying the refused
\* ones, with no cleanup in between.
SpecVSFeed == InitFeed /\ [][NextVSFeed]_vars

\* One ingress connection and the backends behind the channels.
SpecNet == Init /\ [][NextNet]_vars

\* The same, with the scheduling the executor gives the connection task (a
\* ready branch of select! is eventually taken, a send on a channel with room
\* completes) and a backend that consumes its channels and resolves, by
\* filling or dropping, the reply slot of every command it has taken.  Nothing
\* is assumed of the client: a write to the socket may stay pending forever.
BackendResolve(i) == BackendDrop(i) \/ \E r \in Responses : BackendFill(i, r)

FairNet ==
    /\ WF_vars(WorkerSend)
    /\ WF_vars(WorkerNextReply)
    /\ \A ch \in {"worker", "sync"} : WF_vars(BackendRecv(ch))
    /\ \A i \in 1..MaxMsgs : WF_vars(BackendResolve(i))

SpecNetLive == Init /\ [][NextNet]_vars /\ FairNet


(***************************************************************************)
(*                     Properties of the VirtualState                      *)
(***************************************************************************)

\* The four admission predicates, evaluated on DAG d for certificate c.
AdmissionConds(d, c) ==
    /\ c.virtual_round >= 1
    /\ (c.virtual_round - 1) \in DOMAIN d
    /\ c.virtual_parents \subseteq DigestsAt(d, c.virtual_round - 1)
    /\ c.origin \in DOMAIN d[c.virtual_round - 1]

\* Every (round, author) slot of DAG d.
Slots(d) == {<<r, a>> \in Rounds \X Auth : r \in DOMAIN d /\ a \in DOMAIN d[r]}

\* C2: in every DAG state and for every certificate C, try_add(C) returns true
\* if and only if C.virtual_round() >= 1, the DAG has an entry at the previous
\* round, every virtual parent of C is the digest of a certificate stored at
\* the previous round, and C.origin() has an entry at the previous round.
C2_TryAddIffAdmissible ==
    \A c \in Certs : TryAddOk(dag, c) <=> AdmissionConds(dag, c)

\* A round-2 certificate has just been admitted.
C2_Witness ==
    /\ op = "try_add" /\ ret
    /\ 2 \in DOMAIN dag
    /\ 1 \in DOMAIN dag /\ DOMAIN dag[1] # Auth

\* Scenario S2: genesis at round 0 and the four round-1 certificates admitted.
S2State ==
    /\ DOMAIN dag = {0, 1}
    /\ dag[0] = NewDag(Genesis)[0]
    /\ DOMAIN dag[1] = Auth
    /\ \A a \in Auth : dag[1][a] = <<Full(a, 1).digest, Full(a, 1)>>

\* C3: with genesis and all four round-1 certificates admitted, try_add of the
\* round-2 certificate by A whose virtual parents are the digests of B's, C's
\* and D's round-1 certificates (A's own omitted) returns false and leaves the
\* DAG unchanged.
C3_MissingSelfParentRejected ==
    [][(S2State /\ TryAdd(NoSelf("A", 2))) => (ret' = FALSE /\ dag' = dag)]_vars

\* C4 as claimed: every stored certificate at a round R > 0 has all its virtual
\* parents stored at round R-1 now, and its author has a certificate at round
\* R-1 now.
C4_ParentsStored ==
    \A sl \in Slots(dag) :
        LET r == sl[1]
            c == dag[r][sl[2]][2]
        IN  r > 0 =>
                /\ (r - 1) \in DOMAIN dag
                /\ c.virtual_parents \subseteq DigestsAt(dag, r - 1)
                /\ c.origin \in DOMAIN dag[r - 1]

\* C4 as amended, state part: while round R-1 is still in the DAG, the author of
\* every certificate stored at round R has a certificate at round R-1.
C4_AuthorChain ==
    \A sl \in Slots(dag) :
        (sl[1] > 0 /\ (sl[1] - 1) \in DOMAIN dag) => sl[2] \in DOMAIN dag[sl[1] - 1]

\* C4 as amended, step part: a certificate that enters a slot satisfied the
\* admission predicates in the DAG as it was when it was admitted.
C4_AdmittedWhenStored ==
    \A sl \in Slots(dag') :
        (sl \notin Slots(dag) \/ dag[sl[1]][sl[2]] # dag'[sl[1]][sl[2]])
            => AdmissionConds(dag, dag'[sl[1]][sl[2]][2])

\* C4 (amended): every stored certificate C at a round R > 0 satisfied, in the
\* DAG as it was when try_add admitted it, that each of its virtual parents was
\* the digest of a certificate stored at round R-1 and that C.origin() had a
\* certificate at round R-1; and as long as round R-1 is still in the DAG,
\* C.origin() has a certificate stored at round R-1.
C4_Amended == [](C4_AuthorChain) /\ [][C4_AdmittedWhenStored]_vars

\* A stored round-2 certificate one of whose parents was overwritten at round 1.
C4_Witness ==
    /\ {1, 2} \subseteq DOMAIN dag
    /\ \E a \in DOMAIN dag[2] :
          ~(dag[2][a][2].virtual_parents \subseteq DigestsAt(dag, 1))

\* Map `after` is map `before` restricted to the keys above the threshold.
KeptAbove(before, after, threshold) ==
    /\ DOMAIN after = {k \in DOMAIN before : k > threshold}
    /\ \A k \in DOMAIN after : after[k] = before[k]

\* C7: cleanup(r0) leaves the DAG restricted to the rounds R > r0 and S and F
\* restricted to the waves W > (r0+1)/2: nothing at or below the thresholds
\* remains, nothing above them is removed or altered.
C7_CleanupKeepsExactlyAbove ==
    [][op' = "cleanup" => \A r0 \in CommitRounds : Cleanup(r0) =>
          /\ KeptAbove(dag, dag', r0)
          /\ KeptAbove(steady_authorities_sets, steady_authorities_sets', (r0 + 1) \div 2)
          /\ KeptAbove(fallback_authorities_sets, fallback_authorities_sets',
                       (r0 + 1) \div 2)]_vars

\* Scenario S4 one round lower: rounds {0,1,2} and S waves {1,2}; cleanup(1)
\* (w0 = 1) has left round 2 and wave 2.
C7_Witness ==
    /\ op = "cleanup" /\ committed = 1
    /\ DOMAIN dag = {2}
    /\ DOMAIN steady_authorities_sets = {2}
    /\ DOMAIN fallback_authorities_sets = {2}

\* C8: once cleanup(r0) has been called, in every state reached afterwards by
\* try_add and cleanup calls the DAG has no entry at a round R <= r0 and S and
\* F have no entry at a wave W <= (r0+1)/2.
C8_NothingAtOrBelowCommitted ==
    committed >= 0 =>
        /\ \A R \in DOMAIN dag : R > committed
        /\ \A W \in DOMAIN steady_authorities_sets : W > (committed + 1) \div 2
        /\ \A W \in DOMAIN fallback_authorities_sets : W > (committed + 1) \div 2

\* After cleanup(1) a try_add has been refused: rounds 0 and 1 and wave 1 are
\* still absent, round 2 and wave 2 are still there.
C8_Witness ==
    /\ committed = 1
    /\ op = "try_add" /\ ~ret
    /\ DOMAIN dag = {2}
    /\ DOMAIN steady_authorities_sets = {2}
    /\ DOMAIN fallback_authorities_sets = {2}

\* Cleaning up again at any round up to the largest one already cleaned up
\* would change neither the DAG nor the authority sets.
CleanupAgainIsNoOp ==
    \A r1 \in CommitRounds :
        r1 <= committed =>
            /\ CleanupDag(dag, r1) = dag
            /\ CleanupSets(steady_authorities_sets, r1) = steady_authorities_sets
            /\ CleanupSets(fallback_authorities_sets, r1) = fallback_authorities_sets

\* C11: in any state reached by try_add and cleanup calls in which cleanup(r0)
\* has been applied, cleanup(r1) with r1 <= r0 adds no entry to the DAG, S or F
\* and leaves all three unchanged.
C11_CleanupAgainChangesNothing ==
    /\ [](CleanupAgainIsNoOp)
    /\ [][op' = "cleanup_again" =>
              UNCHANGED <<dag, steady_authorities_sets, fallback_authorities_sets>>]_vars

\* cleanup(1) was applied and later a cleanup at or below round 1:
\* round 2 and wave 2 are what cleanup(1) left.
C11_Witness ==
    /\ op = "cleanup_again" /\ committed = 1
    /\ DOMAIN dag = {2} /\ DOMAIN dag[2] = {"A", "B"}
    /\ DOMAIN steady_authorities_sets = {2}
    /\ DOMAIN fallback_authorities_sets = {2}

\* L, the committee's identifiers in ascending order, indexed from 0.
L(i) == <<"A", "B", "C", "D">>[i + 1]

\* dag[R][a] when that entry exists, None otherwise.
EntryOf(R, a) ==
    IF R \in DOMAIN dag /\ a \in DOMAIN dag[R] THEN <<"Some", dag[R][a]>> ELSE <<"None">>

\* The rounds for which the elected keys are compared with the formula: both
\* the steady seed and the fallback coin go round the committee.
KeyRounds == 0..(4 * DeepRound)

\* The steady leaders of rounds 1..8.
SteadyTable == <<"B", "B", "C", "C", "D", "D", "A", "A">>

\* The keys the two elections elect are the round-robin keys of the formula,
\* and the steady keys of rounds 1..8 follow the table.
KeysByFormula ==
    /\ \A R \in KeyRounds :
          /\ steady_leader_key(R) = L(((R + 1) \div 2) % 4)
          /\ fallback_leader_key(R) = L(((R + 1) \div 4) % 4)
    /\ \A R \in 1..8 : steady_leader_key(R) = SteadyTable[R]

\* In every state the two elections return the entry of the round-robin leader
\* at the round asked, and the steady leaders of rounds 1..8 follow the table.
LeadersByFormula ==
    /\ KeysByFormula
    /\ \A R \in LeaderRounds :
          /\ steady_leader(dag, R) = EntryOf(R, L(((R + 1) \div 2) % 4))
          /\ fallback_leader(dag, R) = EntryOf(R, L(((R + 1) \div 4) % 4))
    /\ \A R \in 1..8 : steady_leader(dag, R) = EntryOf(R, SteadyTable[R])

\* A leader election returns what the formula gives in the state it is called
\* in, and changes nothing of the state.
LeaderCallReadsOnly ==
    /\ \A R \in LeaderRounds :
          /\ SteadyLeader(R) => leader' = EntryOf(R, L(((R + 1) \div 2) % 4))
          /\ FallbackLeader(R) => leader' = EntryOf(R, L(((R + 1) \div 4) % 4))
    /\ op' \in {"steady_leader", "fallback_leader"} =>
          UNCHANGED <<dag, steady_authorities_sets, fallback_authorities_sets>>

\* C14: with L the sorted committee, steady_leader(R) returns the entry
\* dag[R][L[((R+1)/2) mod |L|]] and fallback_leader(R) the entry
\* dag[R][L[((R+1)/4) mod |L|]] when it exists and None otherwise, for every
\* round and DAG state, without modifying the state; for the committee
\* {A,B,C,D} the steady leaders of rounds 1..8 are B,B,C,C,D,D,A,A.
C14_LeadersRoundRobin == [](LeadersByFormula) /\ [][LeaderCallReadsOnly]_vars

\* Round 8 is complete; steady_leader(8) was called and has returned A's
\* round-8 certificate (the seed 4 wraps to the first key), where
\* fallback_leader(8) returns C's.
C14_Witness ==
    /\ op = "steady_leader"
    /\ 8 \in DOMAIN dag /\ DOMAIN dag[8] = Auth
    /\ leader = <<"Some", <<Full("A", 8).digest, Full("A", 8)>> >>
    /\ fallback_leader(dag, 8) = <<"Some", <<Full("C", 8).digest, Full("C", 8)>> >>

\* The DAG one particular feeding order ends with: offer some certificate of X
\* that try_add admits, until try_add admits none of those left.
RECURSIVE Admit(_, _)
Admit(d, X) ==
    IF \E c \in X : TryAddOk(d, c)
    THEN LET c == CHOOSE x \in X : TryAddOk(d, x) IN Admit(TryAddDag(d, c), X \ {c})
    ELSE d

\* The caller is done: try_add refuses every certificate still pending.
FeedDone == \A c \in pending : ~TryAddOk(dag, c)

\* No two certificates of X are for the same (virtual round, origin) slot.
OnePerSlot(X) ==
    \A c1, c2 \in X :
        (c1.virtual_round = c2.virtual_round /\ c1.origin = c2.origin) => c1 = c2

\* C15 as claimed: whatever the order in which a set of certificates was
\* offered and retried, the final DAG is the one any other order ends with.
C15_AnyOrderSameDag ==
    FeedDone => dag = Admit(NewDag(Genesis), offered)

\* C15 (amended): for any finite set of certificates that holds at most one
\* certificate per (virtual round, origin), offered to try_add in any order
\* with rejected certificates retried until no further one is admitted (no
\* cleanup in between), the final DAG is the same for every order.
C15_Amended ==
    (FeedDone /\ OnePerSlot(offered)) => dag = Admit(NewDag(Genesis), offered)

\* B's round-2 certificate was refused before its round-1 parent was admitted,
\* then retried and admitted; D's round-2 certificate stays refused.
C15_Witness ==
    /\ offered = {Full("B", 1), SelfOnly("B", 2), Full("D", 2)}
    /\ pending = {Full("D", 2)}
    /\ FeedDone
    /\ op = "try_add" /\ ~ret
    /\ DOMAIN dag = {0, 1, 2}

\* A cleanup at or above every stored round empties the DAG.
CleanupAboveAllEmpties ==
    \A r0 \in CommitRounds :
        (Cleanup(r0) /\ \A R \in DOMAIN dag : R <= r0) => dag' = EmptyMap

\* From an empty DAG every call leaves the DAG empty, and a try_add returns
\* false.
EmptyStaysEmpty ==
    dag = EmptyMap => (dag' = EmptyMap /\ (op' = "try_add" => ret' = FALSE))

\* C16: cleanup(r0) with r0 greater than or equal to every stored round leaves
\* the DAG empty, and genesis is not recoverable afterwards: in every state
\* reached later by try_add and cleanup calls the DAG is still empty, every
\* subsequent try_add returns false.
C16_EmptiedDagStaysEmpty ==
    /\ [](dag = EmptyMap => \A c \in Certs : ~TryAddOk(dag, c))
    /\ [][CleanupAboveAllEmpties /\ EmptyStaysEmpty]_vars

\* cleanup(2) removed every round that was stored and a later try_add was
\* refused.
C16_Witness ==
    /\ dag = EmptyMap
    /\ committed = 2
    /\ op = "try_add" /\ ~ret

\* The origins of the genesis certificates given to new.
GenesisOrigins == {g.origin : g \in Genesis}

\* C20: in every state reachable from new(committee, genesis) by try_add and
\* cleanup calls, every author with an entry at any round of the DAG is the
\* origin of a genesis certificate, and whenever rounds R-1 and R are both
\* present the authors at round R are a subset of the authors at round R-1.
C20_AuthorsFromGenesis ==
    \A R \in DOMAIN dag :
        /\ DOMAIN dag[R] \subseteq GenesisOrigins
        /\ (R - 1) \in DOMAIN dag => DOMAIN dag[R] \subseteq DOMAIN dag[R - 1]

\* Genesis is cleaned up, A and B are at round 1 and only B at round 2, and a
\* try_add has just been refused.
C20_Witness ==
    /\ op = "try_add" /\ ~ret
    /\ DOMAIN dag = {1, 2}
    /\ DOMAIN dag[1] = {"A", "B"}
    /\ DOMAIN dag[2] = {"B"}

\* try_add leaves the authority sets alone.
TryAddKeepsSets ==
    op' = "try_add" =>
        /\ steady_authorities_sets' = steady_authorities_sets
        /\ fallback_authorities_sets' = fallback_authorities_sets

\* The DAG after an accepted try_add(c): the slot of c holds (digest, c) and
\* every other slot is as before.
AcceptedStoredAlone(c) ==
    LET after == TryAddDag(dag, c)
        own == <<c.virtual_round, c.origin>>
    IN  /\ own \in Slots(after)
        /\ after[own[1]][own[2]] = <<c.digest, c>>
        /\ DOMAIN after = DOMAIN dag \cup {own[1]}
        /\ Slots(after) = Slots(dag) \cup {own}
        /\ \A sl \in Slots(dag) : sl # own => after[sl[1]][sl[2]] = dag[sl[1]][sl[2]]

\* C9: when try_add(C) returns true, the slot of (C.virtual_round(), C.origin())
\* holds (C.digest(), C), replacing what was stored there, and every other slot
\* of the DAG, S and F are unchanged.
C9_AcceptedStoredAlone ==
    /\ [](\A c \in Certs : TryAddOk(dag, c) => AcceptedStoredAlone(c))
    /\ [][TryAddKeepsSets]_vars

\* A's round-1 slot holds its second proposal although A's round-2 certificate
\* lists the first: the first was admitted, then replaced.
C9_Witness ==
    /\ op = "try_add" /\ ret
    /\ {1, 2} \subseteq DOMAIN dag
    /\ "A" \in DOMAIN dag[2] /\ dag[2]["A"][1] = Dig("A", 2, 1)
    /\ dag[1]["A"][1] = Dig("A", 1, 2)

\* The DAG after a refused try_add(c) is the DAG before it, and no try_add
\* creates or replaces the round-0 entry.
RejectedChangesNothing(c) ==
    LET after == TryAddDag(dag, c) IN
    /\ c.virtual_round = 0 => ~TryAddOk(dag, c)
    /\ ~TryAddOk(dag, c) => after = dag
    /\ 0 \in DOMAIN after <=> 0 \in DOMAIN dag
    /\ 0 \in DOMAIN dag => after[0] = dag[0]

\* C10: when try_add(C) returns false, which includes every C of round 0, the
\* DAG, S and F are as before the call; no entry is created for the round of C
\* and the round-0 entry is never created or replaced through try_add.
C10_RejectedChangesNothing ==
    /\ [](\A c \in Certs : RejectedChangesNothing(c))
    /\ [][TryAddKeepsSets /\ ((op' = "try_add" /\ ~ret') => dag' = dag)]_vars

\* With only B at round 1, a certificate has been refused and nothing was added.
C10_Witness ==
    /\ op = "try_add" /\ ~ret
    /\ DOMAIN dag = {0, 1}
    /\ DOMAIN dag[1] = {"B"}
    /\ committed = -1


(***************************************************************************)
(*                  Properties of the worker-control handler               *)
(***************************************************************************)

\* The reply frames written so far (everything after the banner acknowledgement).
Replies == IF Len(out) = 0 THEN <<>> ELSE Tail(out)

\* C1: on a worker-control connection the reply frames are emitted in the
\* order of their requests, whatever the order in which the backend resolves
\* the reply slots: the k-th reply frame answers the k-th request, so the "OK"
\* of a Batch or Synchronize never overtakes the reply of an earlier Query.
C1_RepliesInRequestOrder ==
    channel_type = "Worker" => \A k \in 1..Len(Replies) : Replies[k][1] = k

\* The tail of scenario S6: Query, Batch answered serialize(r1), "OK".
C1_Witness ==
    /\ channel_type = "Worker"
    /\ received = <<"Query", "Batch">>
    /\ Replies = << <<1, Serialize("r1")>>, <<2, Bytes("OK")>> >>

\* All k requests received so far have been answered, one frame each, in order.
RepliedAll(k) == Len(Replies) = k /\ \A j \in 1..k : Replies[j][1] = j

\* C5: for k inbound messages on a worker-control connection that hits no
\* termination condition, with a backend that resolves every reply slot and
\* consumes its channels, the server eventually has emitted exactly k reply
\* frames, one per message; it never has emitted more frames than it received
\* messages.
C5_OneFramePerMessage ==
    /\ [](channel_type = "Worker" => Len(Replies) <= Len(received))
    /\ pc = "worker" ~> (pc = "closed" \/ RepliedAll(Len(received)))

\* Every write to the client's socket completes, with success or an error:
\* the client keeps reading, or the connection breaks.
WriteCompletes == WF_vars(\E write \in WriteResults : WorkerEmit(write))

\* C5, with the assumption it needs of the client: for k inbound messages on a
\* worker-control connection that hits no termination condition, with a
\* backend that resolves every reply slot and consumes its channels, and a
\* client whose socket completes every write, the server eventually has
\* emitted exactly k reply frames, one per message; it never has emitted more
\* frames than it received messages.
C5_Amended == WriteCompletes => C5_OneFramePerMessage

\* MaxMsgs messages were received and all are answered, the connection is open.
C5_Witness ==
    /\ pc = "worker"
    /\ Len(received) = MaxMsgs
    /\ RepliedAll(MaxMsgs)
    /\ \E i \in 1..Len(received) : received[i] = "Query" /\ slot[i] = Dropped

\* The indices of the commands ever placed on channel ch.
Forwarded(ch) == {fwd[ch][k].idx : k \in 1..Len(fwd[ch])}

\* The channel the dispatch table of the specification gives a message.
TableChannel(m) == IF m = "Synchronize" THEN "sync" ELSE "worker"

\* The reply frame the dispatch table of the specification gives message i.
TableReply(i) ==
    IF received[i] = "Query"
    THEN IF slot[i] = Dropped THEN Bytes("NOTFOUND") ELSE Serialize(slot[i][2])
    ELSE Bytes("OK")

\* C6: every inbound message goes through the dispatch table: a Query is
\* forwarded only to the worker channel and answered serialize(r) if its slot
\* was filled with r, "NOTFOUND" if the slot was dropped; a Synchronize is
\* forwarded only to the sync channel and answered "OK"; any other message is
\* forwarded only to the worker channel and answered "OK".
C6_DispatchTable ==
    channel_type = "Worker" =>
        /\ fwd["tx"] = <<>>
        /\ \A ch \in {"worker", "sync"} : \A k \in 1..Len(fwd[ch]) :
              /\ fwd[ch][k].msg = received[fwd[ch][k].idx]
              /\ TableChannel(fwd[ch][k].msg) = ch
              /\ \A j \in 1..Len(fwd[ch]) : fwd[ch][j].idx = fwd[ch][k].idx => j = k
        /\ \A k \in 1..Len(Replies) :
              LET i == Replies[k][1] IN
              /\ i \in Forwarded(TableChannel(received[i]))
              /\ received[i] = "Query" => slot[i] # Pending
              /\ Replies[k][2] = TableReply(i)

\* A Synchronize whose slot the backend filled, answered "OK", then a Query
\* answered serialize(r2).
C6_Witness ==
    /\ channel_type = "Worker"
    /\ received = <<"Synchronize", "Query">>
    /\ slot[1] = Filled("r1")
    /\ fwd["sync"] = << [idx |-> 1, msg |-> "Synchronize"] >>
    /\ fwd["worker"] = << [idx |-> 2, msg |-> "Query"] >>
    /\ Replies = << <<1, Bytes("OK")>>, <<2, Serialize("r2")>> >>

(***************************************************************************)
(*                  Properties of the transaction handler                  *)
(***************************************************************************)

\* The payloads forwarded so far are the first received ones, in arrival order,
\* each paired with the peer address; every "OK" follows its payload's
\* forwarding; at most one received payload is not yet acknowledged.
TxForwardedThenAcked ==
    /\ fwd["worker"] = <<>> /\ fwd["sync"] = <<>>
    /\ Len(fwd["tx"]) <= Len(received)
    /\ \A k \in 1..Len(fwd["tx"]) : fwd["tx"][k] = <<PeerAddr, received[k]>>
    /\ Len(Replies) <= Len(fwd["tx"])
    /\ \A k \in 1..Len(Replies) : Replies[k] = <<k, Bytes("OK")>>
    /\ Len(received) <= Len(Replies) + 1

\* A frame is taken from the stream only when every earlier payload has been
\* forwarded and acknowledged.
TxReadsAfterAck ==
    Len(received') > Len(received) =>
        /\ Len(fwd["tx"]) = Len(received)
        /\ Len(Replies) = Len(received)
        /\ writing = <<>>

\* The "OK" of a payload starts being written in the step that places the
\* payload on the transaction channel, never earlier.
TxAckAfterForward ==
    (writing' # <<>> /\ writing = <<>>) =>
        /\ Len(fwd'["tx"]) = Len(fwd["tx"]) + 1
        /\ writing'[1] = <<Len(fwd'["tx"]), Bytes("OK")>>

\* C12: on a Transaction connection, for every received payload p the handler
\* first places (peer_addr, p) on the transaction channel, then emits one "OK",
\* and reads the next frame only after that "OK": payloads reach the channel
\* in arrival order, the "OK" frames never outnumber the forwarded payloads,
\* and nothing is placed on the worker or sync channels.
C12_TxForwardThenOk ==
    /\ [](channel_type = "Transaction" => TxForwardedThenAcked)
    /\ [][channel_type = "Transaction" => TxReadsAfterAck /\ TxAckAfterForward]_vars

\* Two payloads forwarded in arrival order and acknowledged, a third frame
\* would be read next.
C12_Witness ==
    /\ pc = "transaction"
    /\ received = <<Bytes("p2"), Bytes("p1")>>
    /\ fwd["tx"] = << <<PeerAddr, Bytes("p2")>>, <<PeerAddr, Bytes("p1")>> >>
    /\ Replies = << <<1, Bytes("OK")>>, <<2, Bytes("OK")>> >>

(***************************************************************************)
(*                  Properties of the connection life cycle                *)
(***************************************************************************)

\* Nothing was ever placed on a backend channel.
NothingForwarded == \A ch \in Channels : fwd[ch] = <<>>

\* What each position of the connection task implies: Accepted is silent; a
\* connection closed before it was classified (no frame, a stream error, a
\* banner that does not deserialize) stays silent; a classified connection is
\* writing its acknowledgement and has served nothing; a serving connection
\* was classified, runs the handler of its banner and has acknowledged the
\* banner exactly once, before any other frame; an unserved connection
\* forwards nothing.
LifeCycleInv ==
    /\ pc \in {"accepted", "classified", "worker", "transaction", "closed"}
    /\ pc = "accepted" => (channel_type = "none" /\ out = <<>> /\ NothingForwarded)
    /\ pc = "classified" =>
          /\ channel_type \in WorkerChannelType
          /\ writing = << <<BannerIdx, Bytes("OK")>> >>
          /\ out = <<>>
    /\ channel_type = "none" => (out = <<>> /\ NothingForwarded /\ received = <<>>)
    /\ pc = "worker" => channel_type = "Worker"
    /\ pc = "transaction" => channel_type = "Transaction"
    /\ pc \in {"worker", "transaction"} => Len(out) >= 1
    /\ out # <<>> =>
          /\ out[1] = <<BannerIdx, Bytes("OK")>>
          /\ \A k \in 2..Len(out) : out[k][1] # BannerIdx
    /\ out = <<>> => (NothingForwarded /\ received = <<>>)

\* The transitions between the positions: Accepted to Classified or Closed,
\* Classified to the handler of the banner or Closed, a handler to Closed;
\* Closed is left by nothing, and the classification never changes once made.
LifeCycleStep ==
    /\ pc' # pc =>
          \/ pc = "accepted" /\ pc' \in {"classified", "closed"}
          \/ pc = "classified" /\ pc' \in {"worker", "transaction", "closed"}
          \/ pc \in {"worker", "transaction"} /\ pc' = "closed"
    /\ pc = "closed" => pc' = "closed"
    /\ channel_type # "none" => channel_type' = channel_type
    /\ \A input \in {StreamEnd, StreamErr, Frame(Garbage)} :
          ReadBanner(input) =>
              (pc' = "closed" /\ out' = <<>> /\ channel_type' = "none")
    /\ \A t \in WorkerChannelType :
          ReadBanner(Frame(Serialize(t))) =>
              (pc' = "classified" /\ out' = <<>> /\ channel_type' = t)
    /\ BannerAck("Ok") =>
          /\ out' = << <<BannerIdx, Bytes("OK")>> >>
          /\ pc' = (IF channel_type = "Worker" THEN "worker" ELSE "transaction")
    /\ BannerAck("Err") => (pc' = "closed" /\ out' = <<>>)

\* C13: every connection follows Accepted -> Classified -> Serving -> Closed:
\* while Accepted nothing is forwarded and no frame is emitted; a stream that
\* ends or errors before a banner, or a banner that fails to deserialize,
\* closes the connection without any frame and without forwarding; on a valid
\* banner exactly one "OK" is emitted before the handler selected by the
\* banner starts serving; Closed is terminal.
C13_ConnectionLifeCycle == [](LifeCycleInv) /\ [][LifeCycleStep]_vars

\* A connection that went through every position: classified Transaction,
\* acknowledged, served one payload, closed.
C13_Witness ==
    /\ pc = "closed"
    /\ channel_type = "Transaction"
    /\ out = << <<BannerIdx, Bytes("OK")>>, <<1, Bytes("OK")>> >>
    /\ fwd["tx"] = << <<PeerAddr, Bytes("p1")>> >>

(***************************************************************************)
(*               Properties of worker-control termination                  *)
(***************************************************************************)

\* The step closes the connection: it writes no frame, forwards nothing and
\* leaves the backend channels as they are.
ClosesQuietly ==
    /\ pc' = "closed"
    /\ out' = out /\ fwd' = fwd /\ chan' = chan

\* Each termination condition of the worker-control handler closes the
\* connection: the stream ended, a frame could not be decoded, a message
\* could not be deserialized, the backend channel of the command being sent
\* is closed, a reply could not be written.
TerminationCloses ==
    /\ \A input \in {StreamEnd, StreamErr, Frame(Garbage)} :
          WorkerRead(input) => ClosesQuietly
    /\ (WorkerSend /\ ~chan[sending[1].output_channel].alive) => ClosesQuietly
    /\ WorkerEmit("Err") => ClosesQuietly

\* Nothing changes the state of a closed connection, the backend resolving one
\* of its reply slots included: no frame, no command, no reply queued.
ClosedIsQuiet ==
    pc = "closed" =>
        /\ UNCHANGED <<pc, channel_type, received, sending, writing, responses_ordered, out,
                       fwd>>
        /\ \A i \in 1..MaxMsgs :
              (BackendDrop(i) \/ \E r \in Responses : BackendFill(i, r)) => chan' = chan

\* C17: once a termination condition occurs on a worker-control connection
\* the connection is closed: the handler emits no further frame and forwards
\* no further command, even when replies are still pending in its FIFO;
\* commands already forwarded stay in the backend channels, and a backend
\* that fills or drops a reply slot of the closed connection changes no
\* connection's state.
C17_TerminationCloses ==
    /\ [](pc = "closed" => (responses_ordered = <<>> /\ sending = <<>> /\ writing = <<>>))
    /\ [][TerminationCloses /\ ClosedIsQuiet]_vars

\* The sync channel was closed when the Synchronize was to be forwarded: the
\* connection is closed; the Query forwarded before it reached the backend,
\* which filled its reply slot, and that reply was never sent.
C17_Witness ==
    /\ pc = "closed"
    /\ received = <<"Query", "Synchronize">>
    /\ fwd["worker"] = << [idx |-> 1, msg |-> "Query"] >>
    /\ fwd["sync"] = <<>>
    /\ slot[1] = Filled("r1")
    /\ Replies = <<>>

(***************************************************************************)
(*               Properties of a pending Query                             *)
(***************************************************************************)

\* The reply at the head of the FIFO is a Query's and its slot is unresolved.
HeadQueryPending ==
    /\ pc = "worker"
    /\ responses_ordered # <<>>
    /\ responses_ordered[1].must_wait
    /\ slot[responses_ordered[1].idx] = Pending

\* While the head Query is unresolved the handler, when it is at select!, can
\* take the next inbound message, and can forward the command it is sending
\* as soon as the backend channel has room; no reply to the Query or to a
\* later message has been written or is being written.
PendingQueryAdmitsIntake ==
    HeadQueryPending =>
        /\ (sending = <<>> /\ writing = <<>> /\ Len(received) < MaxMsgs) =>
              \A m \in WorkerMessage : ENABLED WorkerRead(Frame(Serialize(m)))
        /\ (sending # <<>> /\ Len(chan[sending[1].output_channel].q) < ChanCap) =>
              ENABLED WorkerSend
        /\ \A k \in 1..Len(Replies) : Replies[k][1] < responses_ordered[1].idx
        /\ writing # <<>> => writing[1][1] < responses_ordered[1].idx

\* While the head Query is unresolved no reply leaves the FIFO, and the only
\* frame that can be written is the reply to an earlier message whose write
\* was already under way.
PendingQueryBlocksReplies ==
    HeadQueryPending =>
        /\ ~WorkerNextReply
        /\ (pc' = "worker" /\ writing' # <<>>) => writing' = writing
        /\ out' # out =>
              (out' = Append(out, writing[1]) /\ writing[1][1] < responses_ordered[1].idx)

\* C18: a pending Query blocks only replies, not intake: while the reply slot
\* of a Query at the head of the reply FIFO is unresolved, the handler still
\* reads later inbound messages and forwards them to their backend channels,
\* and no reply to any later message is emitted until that Query resolves.
C18_PendingQueryBlocksOnlyReplies ==
    /\ [](PendingQueryAdmitsIntake)
    /\ [][PendingQueryBlocksReplies]_vars

\* Scenario S6 before the backend answers: the Query is unresolved, the Batch
\* received after it has been forwarded and taken by the backend, and no reply
\* has been written.
C18_Witness ==
    /\ HeadQueryPending
    /\ received = <<"Query", "Batch">>
    /\ fwd["worker"] = << [idx |-> 1, msg |-> "Query"], [idx |-> 2, msg |-> "Batch"] >>
    /\ held = {1, 2}
    /\ Len(responses_ordered) = 2
    /\ Replies = <<>>

(***************************************************************************)
(*               Properties of forwarding before replying                  *)
(***************************************************************************)

\* The indices of the messages whose command was placed on a backend channel.
ForwardedAny == Forwarded("worker") \cup Forwarded("sync")

\* Every reply written answers a forwarded message; on each backend channel
\* the commands are in the order their messages were received; only the last
\* message received can be unforwarded.
RepliesFollowForwarding ==
    /\ \A k \in 1..Len(Replies) : Replies[k][1] \in ForwardedAny
    /\ (pc = "worker" /\ writing # <<>>) => writing[1][1] \in ForwardedAny
    /\ \A ch \in {"worker", "sync"} : \A j, k \in 1..Len(fwd[ch]) :
          j < k => fwd[ch][j].idx < fwd[ch][k].idx
    /\ \A i \in 1..Len(received) : i \notin ForwardedAny => i = Len(received)

\* A frame is written only for a message that was forwarded before the step,
\* and a forwarding that fails on a closed channel closes the connection with
\* nothing forwarded and nothing written.
ReplyStepAfterForward ==
    /\ (Len(out') > Len(out) /\ out # <<>>) => out'[Len(out')][1] \in ForwardedAny
    /\ (WorkerSend /\ ~chan[sending[1].output_channel].alive) =>
          (pc' = "closed" /\ fwd' = fwd /\ out' = out)

\* C19: on a worker-control connection the reply frame for a message is never
\* emitted before that message's command has been placed on its backend
\* channel, the commands of one connection are placed on each backend channel
\* in the order their messages were received, and a message whose forwarding
\* fails (backend channel closed) gets no reply frame at all.
C19_ReplyOnlyAfterForward ==
    /\ [](channel_type = "Worker" => RepliesFollowForwarding)
    /\ [][channel_type = "Worker" => ReplyStepAfterForward]_vars

\* The Batch was forwarded and answered; the Synchronize found the sync
\* channel closed: it was not forwarded and has no reply.
C19_Witness ==
    /\ pc = "closed"
    /\ received = <<"Batch", "Synchronize">>
    /\ fwd["worker"] = << [idx |-> 1, msg |-> "Batch"] >>
    /\ fwd["sync"] = <<>>
    /\ ~chan["sync"].alive
    /\ Replies = << <<1, Bytes("OK")>> >>


=============================================================================
